---- MODULE Spec2Model ----
(***************************************************************************)
(* The upgrade chain of src/src/index.js: processUpgradesSequentially      *)
(* (lines 137-149) folds the upgrade list into one promise chain, and      *)
(* updateDependency (lines 151-291) drives the hosting-API client through  *)
(* checkForClosedPr, createBranch, getPackageFile, writePackageFile,       *)
(* getPr and createPr / updatePr.  The chain over config.repositories      *)
(* (lines 14-34) runs processRepoPackageFile (lines 108-120) once per      *)
(* repository/manifest pair.  Every state of the model is a state          *)
(* between two event-loop turns: each action is one promise callback, run  *)
(* to completion, together with the remote call it issues.                 *)
(*                                                                         *)
(* The client (helpers/github), the manifest patch (helpers/packageJson)   *)
(* and the templates (config) are external collaborators of index.js; they *)
(* are modelled from the specification, sections 4.2 and 6.                *)
(***************************************************************************)
EXTENDS Integers, Sequences, FiniteSets, TLC

\* Bounds of the model.
MaxUpgrades == 2
MaxThirdParty == 1
MaxPairs == 2

----------------------------------------------------------------------------
\* Data: manifests, versions, Upgrade Records

Sections == {"dependencies", "devDependencies"}
DepNames == {"lodash"}

Absent == "absent"          \* the section has no such key: undefined in JS
NoSection == "nosection"    \* the manifest has no such section

Versions == {"^3.9.0", "3.9.0", "3.10.0", "4.0.0"}

\* A file's content, as JSON.parse reads it (lines 233-234): the value at
\* [section][name], Absent or NoSection where there is none.
BaseManifest ==
  [s \in Sections |->
     [d \in DepNames |-> IF s = "dependencies" THEN "3.9.0" ELSE "^3.9.0"]]

\* The blob SHA of a file: a function of its content alone.
Sha(content) == <<"sha", content>>

\* Upgrade Records of the discovery step for BaseManifest: one of each
\* upgradeType, two of them rendering the same branch name.
UpgradeRecords ==
  { [upgradeType |-> "minor", depType |-> "dependencies", depName |-> "lodash",
     currentVersion |-> "3.9.0", newVersion |-> "3.10.0"],
    [upgradeType |-> "pin", depType |-> "devDependencies", depName |-> "lodash",
     currentVersion |-> "^3.9.0", newVersion |-> "3.9.0"],
    [upgradeType |-> "major", depType |-> "devDependencies", depName |-> "lodash",
     currentVersion |-> "^3.9.0", newVersion |-> "4.0.0"] }

\* semver.major(newVersion), line 152
semverMajor(v) == IF v = "4.0.0" THEN 4 ELSE 3

MajorText(n) == IF n = 4 THEN "4" ELSE "3"

\* config.templates.*: the default templates
branchNameTemplate(u) ==
  <<"renovate", u.depName, MajorText(semverMajor(u.newVersion))>>

prTitlePin(u) == <<"Pin dependency", u.depName, u.newVersion>>

prTitleMinor(u) == <<"Update dependency", u.depName, u.newVersion>>

prTitleMajor(u) ==
  <<"Update dependency", u.depName, MajorText(semverMajor(u.newVersion)), "x">>

prBodyTemplate(u) == <<"body", u.depName, u.currentVersion, u.newVersion>>

commitMessageTemplate(u) == <<"commit", u.depName, u.newVersion>>

\* updateDependency, lines 152-196: the Rendered Change Set
branchName(u) == branchNameTemplate(u)

prTitle(u) ==
  IF u.upgradeType = "pin" THEN prTitlePin(u)
  ELSE IF u.upgradeType = "minor" THEN prTitleMinor(u)
  ELSE prTitleMajor(u)

prBody(u) == prBodyTemplate(u)

commitMessage(u) == commitMessageTemplate(u)

WorkBranches == {branchName(u) : u \in UpgradeRecords}

\* The branch the manifest was read from and work branches are created from
BaseBranch == <<"master">>

\* The manifests of a repository the run has not touched: every work branch
\* is created from the base branch.
FreshFiles == [b \in WorkBranches \cup {BaseBranch} |-> BaseManifest]

HumanTitle == <<"edited by a maintainer">>
HumanBody == <<"rewritten by a maintainer">>

----------------------------------------------------------------------------
VARIABLES
  upgrades,   \* the list handed to processUpgradesSequentially
  pc,         \* per upgrade: the chain link's position
  calls,      \* per upgrade: the remote calls issued so far, in order (kept
              \* for the reconciles in progress and the latest settled one)
  outcome,    \* per upgrade: what the reconcile logged
  branches,   \* remote: the work branches that exist
  files,      \* remote: the manifest on each work branch
  prs,        \* remote: the pull requests, by number
  tp,         \* when third parties mutated the remote, relative to the
              \* latest reconcile and the one before it
  stage,      \* per repository/manifest pair: the position of its
              \* processRepoPackageFile pipeline
  pairOutcome, \* per pair: what processRepoPackageFile logged at its end
  client,     \* the pair github.init last initialised the client for, 0
              \* before the first
  owner,      \* the pair whose manifest the list in upgrades was
              \* determined from, 0 before the first
  allDone     \* the handlers at the end of the chain, lines 25-34

outer == <<stage, pairOutcome, client, owner, allDone>>

vars == <<upgrades, pc, calls, outcome, branches, files, prs, tp, stage,
          pairOutcome, client, owner, allDone>>

N == Len(upgrades)
Links == 1..N

\* pc[k]: "notstarted"; the call in flight; "resolved" or "rejected" once
\* updateDependency's promise has settled; "passed" when the link was
\* rejected by the link before it and its callback never ran.
Settled(k) == pc[k] \in {"resolved", "rejected", "passed"}
Started(k) == pc[k] \notin {"notstarted", "passed"}

Running(k) == Started(k) /\ ~Settled(k)

\* tp.n: the third-party mutations so far.  tp.run: one happened while the
\* latest reconcile was running; tp.after: one happened after it settled;
\* tp.prev: one happened while the reconcile before it was running;
\* tp.between: one happened between the two.
NoThirdParty ==
  [n |-> 0, run |-> FALSE, after |-> FALSE, prev |-> FALSE, between |-> FALSE]

\* The lists npm.getAllDependencyUpgrades may resolve with, line 134
UpgradeLists == UNION {[1..n -> UpgradeRecords] : n \in 0..MaxUpgrades}

\* The upgrade chain of one pair on a fresh repository: the state in which
\* processUpgradesSequentially is entered, line 137.
Init ==
  /\ upgrades \in UpgradeLists
  /\ pc = [k \in 1..Len(upgrades) |-> "notstarted"]
  /\ calls = [k \in 1..Len(upgrades) |-> <<>>]
  /\ outcome = [k \in 1..Len(upgrades) |-> "pending"]
  /\ branches = {}
  /\ files = FreshFiles
  /\ prs = <<>>
  /\ tp = NoThirdParty
  /\ stage = <<"processUpgradesSequentially">>
  /\ pairOutcome = <<"pending">>
  /\ client = 1
  /\ owner = 1
  /\ allDone = "pending"

----------------------------------------------------------------------------
\* The call log: one entry per remote call, settled in place

Entry(op, args) ==
  [op |-> op, args |-> args, settled |-> FALSE, err |-> "none", val |-> <<>>]

Last(k) == calls[k][Len(calls[k])]

SettleLast(k, err, val) ==
  [calls[k] EXCEPT ![Len(calls[k])] =
     [@ EXCEPT !.settled = TRUE, !.err = err, !.val = val]]

\* One callback of reconcile k: its position, its log line, its call log and
\* the remote state its settled call leaves.
Step(k, npc, oc, c, nb, nf, np) ==
  /\ pc' = [pc EXCEPT ![k] = npc]
  /\ outcome' = [outcome EXCEPT ![k] = oc]
  /\ calls' = [j \in Links |->
                IF j = k THEN c
                ELSE IF pc[k] = "notstarted" /\ Settled(j) THEN <<>>
                ELSE calls[j]]
  /\ branches' = nb
  /\ files' = nf
  /\ prs' = np
  /\ tp' = IF pc[k] = "notstarted" /\ npc # "passed"
             THEN [n |-> tp.n, run |-> FALSE, after |-> FALSE,
                   prev |-> tp.run, between |-> tp.after]
             ELSE tp
  /\ UNCHANGED <<upgrades, outer>>

----------------------------------------------------------------------------
\* The Repository State Client (helpers/github), from section 6 of the
\* specification.  A response is [err, val] plus the remote state it leaves;
\* err = "none" is success.  Every call may also fail for a reason of its own
\* ("other"), leaving the remote untouched.

Resp(err, val, nb, nf, np) ==
  [err |-> err, val |-> val, branches |-> nb, files |-> nf, prs |-> np]

Failure(err) == Resp(err, <<>>, branches, files, prs)

OpenPrsOf(b) ==
  {i \in 1..Len(prs) : prs[i].branch = b /\ prs[i].state = "open"}

checkForClosedPrResponses(b, title) ==
  { Resp("none",
         << \E i \in 1..Len(prs) :
              /\ prs[i].state = "closed"
              /\ prs[i].branch = b
              /\ prs[i].title = title >>,
         branches, files, prs),
    Failure("other") }

createBranchResponses(b) ==
  (IF b \in branches
     THEN {Failure("exists")}
     ELSE {Resp("none", <<>>, branches \cup {b},
                [files EXCEPT ![b] = files[BaseBranch]], prs)})
  \cup {Failure("other"), Failure("noresponse")}

getPackageFileResponses(b) ==
  (IF b \in branches \cup {BaseBranch}
     THEN {Resp("none", <<Sha(files[b]), files[b]>>, branches, files, prs)}
     ELSE {Failure("notfound")})
  \cup {Failure("other")}

writePackageFileResponses(b, sha, content) ==
  (IF b \in branches \cup {BaseBranch} /\ Sha(files[b]) = sha
     THEN {Resp("none", <<Sha(content)>>, branches,
                [files EXCEPT ![b] = content], prs)}
     ELSE {Failure("conflict")})
  \cup {Failure("other")}

getPrResponses(b) ==
  (IF OpenPrsOf(b) = {}
     THEN {Resp("none", <<>>, branches, files, prs)}
     ELSE LET i == CHOOSE j \in OpenPrsOf(b) : TRUE IN
          {Resp("none",
                <<[number |-> i, title |-> prs[i].title, body |-> prs[i].body]>>,
                branches, files, prs)})
  \cup {Failure("other")}

createPrResponses(b, title, body) ==
  (IF b \in branches /\ OpenPrsOf(b) = {}
     THEN {Resp("none", <<Len(prs) + 1>>, branches, files,
                Append(prs, [branch |-> b, title |-> title, body |-> body,
                             state |-> "open"]))}
     ELSE {Failure("unprocessable")})
  \cup {Failure("other")}

updatePrResponses(n, title, body) ==
  (IF n \in 1..Len(prs)
     THEN {Resp("none", <<>>, branches, files,
                [prs EXCEPT ![n] = [@ EXCEPT !.title = title, !.body = body]])}
     ELSE {Failure("notfound")})
  \cup {Failure("other")}

\* packageJson.setNewValue (helpers/packageJson), from section 4.2: only the
\* entry [depType][depName] is replaced; a missing entry is an error.
setNewValue(content, depType, depName, newVersion) ==
  IF content[depType][depName] \in {Absent, NoSection}
    THEN [ok |-> FALSE, content |-> content]
    ELSE [ok |-> TRUE,
          content |-> [content EXCEPT ![depType][depName] = newVersion]]

----------------------------------------------------------------------------
\* The decisions of updateDependency's callbacks

\* A chain that does not wait: upgrades.forEach(updateDependency).
PrevFulfilledParallel(k) == TRUE

\* processUpgradesSequentially, lines 147-148: link k of the reduce chain runs
\* its callback once the promise of link k-1 (Promise.resolve() for k = 1) is
\* fulfilled.
PrevFulfilled(k) == IF k = 1 THEN TRUE ELSE pc[k - 1] = "resolved"

\* A callback that runs ensureAll whatever the query settled with.
onClosedPrCheckIgnoresError(err, prExisted) ==
  IF err = "none" /\ prExisted THEN "skip" ELSE "ensureAll"

\* A callback that drops the prExisted test.
onClosedPrCheckNoSkip(err, prExisted) ==
  IF err # "none" THEN "reject" ELSE "ensureAll"

\* lines 200-206: the callback of checkForClosedPr's promise.  The chain has
\* no rejection handler here: a rejected query rejects updateDependency.
onClosedPrCheck(err, prExisted) ==
  IF err # "none" THEN "reject"
  ELSE IF prExisted THEN "skip"
  ELSE "ensureAll"

\* A handler that tests error.response before reading the message and so
\* swallows an error that has none.
ensureBranchCatchGuarded(err) ==
  IF err = "noresponse" THEN "swallow"
  ELSE IF err # "exists" THEN "throw"
  ELSE "swallow"

\* ensureBranch, lines 218-227: the rejection handler of createBranch.
\* error.response.body.message on an error without a response is a
\* TypeError thrown from the handler.
ensureBranchCatch(err) ==
  IF err = "noresponse" THEN "throw"
  ELSE IF err # "exists" THEN "throw"
  ELSE "swallow"

\* ensureAll, lines 211-214: the rejection handler of the three steps logs
\* and returns, so ensureAll's promise is fulfilled.
ensureAllCatch == "resolved"

\* A commit step without the up-to-date test of line 235.
ensureCommitDecisionAlwaysWrites(u, content) ==
  IF content[u.depType][u.depName] = NoSection THEN "throw"
  ELSE IF ~setNewValue(content, u.depType, u.depName, u.newVersion).ok
    THEN "throw"
  ELSE "write"

\* A comparison that searches every section for depName.
ensureCommitDecisionAnySection(u, content) ==
  IF content[u.depType][u.depName] = NoSection THEN "throw"
  ELSE IF \E s \in Sections : content[s][u.depName] = u.newVersion
    THEN "uptodate"
  ELSE IF ~setNewValue(content, u.depType, u.depName, u.newVersion).ok
    THEN "throw"
  ELSE "write"

\* A commit step that takes every readable manifest for up to date.
ensureCommitDecisionNeverWrites(u, content) ==
  IF content[u.depType][u.depName] = NoSection THEN "throw"
  ELSE "uptodate"

\* ensureCommit, lines 231-251: the callback of getPackageFile's promise
ensureCommitDecision(u, content) ==
  IF content[u.depType][u.depName] = NoSection THEN "throw"
  ELSE IF content[u.depType][u.depName] = u.newVersion THEN "uptodate"
  ELSE IF ~setNewValue(content, u.depType, u.depName, u.newVersion).ok
    THEN "throw"
  ELSE "write"

\* A write that carries the SHA of the base manifest, not the one just read.
writePackageFileArgsCachedSha(u, res) ==
  <<branchName(u), Sha(BaseManifest),
    setNewValue(res[2], u.depType, u.depName, u.newVersion).content,
    commitMessage(u)>>

\* A write that names the base branch.
writePackageFileArgsBaseBranch(u, res) ==
  <<BaseBranch, res[1],
    setNewValue(res[2], u.depType, u.depName, u.newVersion).content,
    commitMessage(u)>>

\* ensureCommit, lines 232 and 241-250: the arguments of writePackageFile;
\* res is <<sha, content>> as getPackageFile returned it
writePackageFileArgs(u, res) ==
  <<branchName(u), res[1],
    setNewValue(res[2], u.depType, u.depName, u.newVersion).content,
    commitMessage(u)>>

\* A test that needs both fields to match.
processExistingPrBothMatch(u, existingPr) ==
  IF existingPr = <<>> THEN "createPr"
  ELSE IF existingPr[1].title = prTitle(u) /\ existingPr[1].body = prBody(u)
    THEN "uptodate"
  ELSE "updatePr"

\* processExistingPr, lines 271-283; existingPr is <<>> for none
processExistingPr(u, existingPr) ==
  IF existingPr = <<>> THEN "createPr"
  ELSE IF existingPr[1].title = prTitle(u) \/ existingPr[1].body = prBody(u)
    THEN "uptodate"
  ELSE "updatePr"

\* createPr, line 258: the arguments of github.createPr
createPrArgs(u) == <<branchName(u), prTitle(u), prBody(u)>>

\* An update that sends the title and keeps the body it found.
updatePrArgsKeepsBody(u, existingPr) ==
  <<existingPr.number, prTitle(u), existingPr.body>>

\* updatePr, line 265: the arguments of github.updatePr
updatePrArgs(u, existingPr) == <<existingPr.number, prTitle(u), prBody(u)>>

\* ensurePr, lines 285-289: the rejection handler of the PR step logs and
\* returns.
ensurePrCatch == "resolved"

----------------------------------------------------------------------------
\* The callbacks

\* lines 151-200: render the change set and issue the duplicate-PR query
updateDependency(k) ==
  /\ pc[k] = "notstarted"
  /\ PrevFulfilled(k)
  /\ Step(k, "checkForClosedPr", "pending",
          <<Entry("checkForClosedPr",
                  <<branchName(upgrades[k]), prTitle(upgrades[k])>>)>>,
          branches, files, prs)

\* line 148: a rejected link passes its rejection on; the callback of the
\* next link never runs.
chainRejected(k) ==
  /\ pc[k] = "notstarted"
  /\ k > 1
  /\ pc[k - 1] \in {"rejected", "passed"}
  /\ Step(k, "passed", "pending", calls[k], branches, files, prs)

\* the call ensureCommit issues first, line 231
IssueGetPackageFile(k, c, r) ==
  Step(k, "getPackageFile", "pending",
       Append(c, Entry("getPackageFile", <<branchName(upgrades[k])>>)),
       r.branches, r.files, r.prs)

\* the call ensurePr issues first, line 285
IssueGetPr(k, c, r) ==
  Step(k, "getPr", "pending",
       Append(c, Entry("getPr", <<branchName(upgrades[k])>>)),
       r.branches, r.files, r.prs)

\* the rejection reaches ensureAll's handler, line 211
CaughtByEnsureAll(k, c, r) ==
  Step(k, ensureAllCatch, "failed", c, r.branches, r.files, r.prs)

\* A handler that asks for the PR again when the PR step failed.
CaughtByEnsurePrRetries(k, c, r) == IssueGetPr(k, c, r)

\* the rejection reaches ensurePr's handler, line 287
CaughtByEnsurePr(k, c, r) ==
  Step(k, ensurePrCatch, "failed-pr", c, r.branches, r.files, r.prs)

\* lines 200-206, then ensureAll and ensureBranch up to createBranch, line 218
checkForClosedPrSettles(k) ==
  /\ pc[k] = "checkForClosedPr"
  /\ \E r \in checkForClosedPrResponses(Last(k).args[1], Last(k).args[2]) :
       LET c == SettleLast(k, r.err, r.val)
           d == onClosedPrCheck(r.err, r.err = "none" /\ r.val[1])
       IN  CASE d = "reject" ->
                  Step(k, "rejected", "threw", c, r.branches, r.files, r.prs)
             [] d = "skip" ->
                  Step(k, "resolved", "skipped-duplicate", c,
                       r.branches, r.files, r.prs)
             [] OTHER ->
                  Step(k, "createBranch", "pending",
                       Append(c, Entry("createBranch",
                                       <<branchName(upgrades[k])>>)),
                       r.branches, r.files, r.prs)

\* ensureBranch, lines 218-227, then ensureCommit up to getPackageFile
createBranchSettles(k) ==
  /\ pc[k] = "createBranch"
  /\ \E r \in createBranchResponses(Last(k).args[1]) :
       LET c == SettleLast(k, r.err, r.val) IN
       IF r.err = "none" \/ ensureBranchCatch(r.err) = "swallow"
         THEN IssueGetPackageFile(k, c, r)
         ELSE CaughtByEnsureAll(k, c, r)

\* ensureCommit, lines 231-251, then ensurePr up to getPr
getPackageFileSettles(k) ==
  /\ pc[k] = "getPackageFile"
  /\ \E r \in getPackageFileResponses(Last(k).args[1]) :
       LET u == upgrades[k]
           c == SettleLast(k, r.err, r.val)
           d == IF r.err # "none" THEN "throw"
                ELSE ensureCommitDecision(u, r.val[2])
       IN  CASE d = "throw" -> CaughtByEnsureAll(k, c, r)
             [] d = "uptodate" -> IssueGetPr(k, c, r)
             [] OTHER ->
                  Step(k, "writePackageFile", "pending",
                       Append(c, Entry("writePackageFile",
                                       writePackageFileArgs(u, r.val))),
                       r.branches, r.files, r.prs)

\* the promise of writePackageFile, line 246, then ensurePr up to getPr
writePackageFileSettles(k) ==
  /\ pc[k] = "writePackageFile"
  /\ \E r \in writePackageFileResponses(Last(k).args[1], Last(k).args[2],
                                        Last(k).args[3]) :
       LET c == SettleLast(k, r.err, r.val) IN
       IF r.err = "none"
         THEN IssueGetPr(k, c, r)
         ELSE CaughtByEnsureAll(k, c, r)

\* ensurePr, lines 285-289, with processExistingPr, lines 271-283
getPrSettles(k) ==
  /\ pc[k] = "getPr"
  /\ \E r \in getPrResponses(Last(k).args[1]) :
       LET u == upgrades[k]
           c == SettleLast(k, r.err, r.val)
           d == IF r.err # "none" THEN "throw"
                ELSE processExistingPr(u, r.val)
       IN  CASE d = "throw" -> CaughtByEnsurePr(k, c, r)
             [] d = "uptodate" ->
                  Step(k, "resolved", "pr-current", c,
                       r.branches, r.files, r.prs)
             [] d = "createPr" ->
                  Step(k, "createPr", "pending",
                       Append(c, Entry("createPr", createPrArgs(u))),
                       r.branches, r.files, r.prs)
             [] OTHER ->
                  Step(k, "updatePr", "pending",
                       Append(c, Entry("updatePr",
                                       updatePrArgs(u, r.val[1]))),
                       r.branches, r.files, r.prs)

\* createPr, lines 257-262
createPrSettles(k) ==
  /\ pc[k] = "createPr"
  /\ \E r \in createPrResponses(Last(k).args[1], Last(k).args[2],
                                Last(k).args[3]) :
       LET c == SettleLast(k, r.err, r.val) IN
       IF r.err = "none"
         THEN Step(k, "resolved", "created", c, r.branches, r.files, r.prs)
         ELSE CaughtByEnsurePr(k, c, r)

\* updatePr, lines 264-269
updatePrSettles(k) ==
  /\ pc[k] = "updatePr"
  /\ \E r \in updatePrResponses(Last(k).args[1], Last(k).args[2],
                                Last(k).args[3]) :
       LET c == SettleLast(k, r.err, r.val) IN
       IF r.err = "none"
         THEN Step(k, "resolved", "updated", c, r.branches, r.files, r.prs)
         ELSE CaughtByEnsurePr(k, c, r)

----------------------------------------------------------------------------
\* Third parties: maintainers and other writers of the same repository

\* A third party acts while the chain is under way: what happens to the
\* repository after the last reconcile has settled is not seen by the run.
ThirdParty(nf, np) ==
  /\ tp.n < MaxThirdParty
  /\ \E k \in Links : ~Settled(k)
  /\ tp' = IF \E k \in Links : Running(k)
             THEN [tp EXCEPT !.n = @ + 1, !.run = TRUE]
             ELSE [tp EXCEPT !.n = @ + 1, !.after = TRUE]
  /\ files' = nf
  /\ prs' = np
  /\ UNCHANGED <<upgrades, pc, calls, outcome, branches, outer>>

ThirdPartyValues == {"4.0.0", Absent, NoSection}

thirdPartyWrite ==
  \E b \in branches, s \in Sections, d \in DepNames, v \in ThirdPartyValues :
    /\ files[b][s][d] # v
    /\ ThirdParty([files EXCEPT ![b][s][d] = v], prs)

thirdPartyClosesPr ==
  \E i \in 1..Len(prs) :
    /\ prs[i].state = "open"
    /\ ThirdParty(files, [prs EXCEPT ![i].state = "closed"])

thirdPartyEditsPr ==
  \E i \in 1..Len(prs) :
   \E t \in {prs[i].title, HumanTitle}, b \in {prs[i].body, HumanBody} :
    /\ prs[i].state = "open"
    /\ <<t, b>> # <<prs[i].title, prs[i].body>>
    /\ ThirdParty(files, [prs EXCEPT ![i].title = t, ![i].body = b])

----------------------------------------------------------------------------
Next ==
  \/ \E k \in Links : updateDependency(k)
  \/ \E k \in Links : chainRejected(k)
  \/ \E k \in Links : checkForClosedPrSettles(k)
  \/ \E k \in Links : createBranchSettles(k)
  \/ \E k \in Links : getPackageFileSettles(k)
  \/ \E k \in Links : writePackageFileSettles(k)
  \/ \E k \in Links : getPrSettles(k)
  \/ \E k \in Links : createPrSettles(k)
  \/ \E k \in Links : updatePrSettles(k)
  \/ thirdPartyWrite
  \/ thirdPartyClosesPr
  \/ thirdPartyEditsPr

Spec == Init /\ [][Next]_vars

----------------------------------------------------------------------------
\* The chain over config.repositories, lines 14-34, and the pipeline of one
\* repository/manifest pair, processRepoPackageFile, lines 108-120.
\* github.init and github.getPackageFileContents (helpers/github) and
\* npm.getAllDependencyUpgrades (helpers/npm) are external collaborators:
\* each is a call that settles with success or with an error.  Every
\* configured pair names a repository of its own, untouched before the run.

Pairs == 1..Len(stage)

\* stage[p]: "notstarted"; the call in flight ("init",
\* "getPackageFileContents", "determineUpgrades"); "processUpgradesSequentially"
\* while the pair's upgrade chain runs; "resolved" or "rejected" once the
\* promise of processRepoPackageFile has settled.
PairCalls == {"init", "getPackageFileContents", "determineUpgrades"}

PairSettled(p) == stage[p] \in {"resolved", "rejected"}

\* A loop that starts every pair at once: forEach without the chain.
PrevPairFulfilledParallel(p) == TRUE

\* lines 18-23: p = p.then(() => processRepoPackageFile(...)): the callback
\* of pair p runs once the promise of pair p-1 (Promise.resolve() for the
\* first) is fulfilled.
PrevPairFulfilled(p) == IF p = 1 THEN TRUE ELSE stage[p - 1] = "resolved"

\* A handler that logs and throws the error again.
processRepoPackageFileRethrows == "rejected"

\* lines 117-119: the rejection handler of the pipeline logs and returns,
\* so the promise of processRepoPackageFile is fulfilled.
processRepoPackageFileCatch == "resolved"

\* A sequencer that does not return the chain it built.
ChainResultNotAwaited == "resolved"

\* A sequencer whose promise stays pending when there is nothing to do.
ChainResultPendingWhenEmpty ==
  IF N = 0 THEN "pending"
  ELSE IF pc[N] = "resolved" THEN "resolved"
  ELSE IF pc[N] \in {"rejected", "passed"} THEN "rejected"
  ELSE "pending"

\* lines 147-148: reduce returns the promise of the last link,
\* Promise.resolve() for an empty list.
ChainResult ==
  IF N = 0 THEN "resolved"
  ELSE IF pc[N] = "resolved" THEN "resolved"
  ELSE IF pc[N] \in {"rejected", "passed"} THEN "rejected"
  ELSE "pending"

\* lines 25-34: the promise the final handlers are attached to is the one of
\* the last pair; a rejected pair passes its rejection on to the end.
OuterResult ==
  IF \E p \in Pairs : stage[p] = "rejected" THEN "rejected"
  ELSE IF Pairs = {} THEN "resolved"
  ELSE IF stage[Len(stage)] = "resolved" THEN "resolved"
  ELSE "pending"

InitRun ==
  /\ stage \in UNION {[1..n -> {"notstarted"}] : n \in 0..MaxPairs}
  /\ pairOutcome = [p \in 1..Len(stage) |-> "pending"]
  /\ client = 0
  /\ owner = 0
  /\ allDone = "pending"
  /\ upgrades = <<>>
  /\ pc = <<>>
  /\ calls = <<>>
  /\ outcome = <<>>
  /\ branches = {}
  /\ files = FreshFiles
  /\ prs = <<>>
  /\ tp = NoThirdParty

\* One callback of the pipeline of pair p
PairStep(p, nst, po, ncl) ==
  /\ stage' = [stage EXCEPT ![p] = nst]
  /\ pairOutcome' = [pairOutcome EXCEPT ![p] = po]
  /\ client' = ncl
  /\ UNCHANGED <<allDone, tp>>

\* the rejection reaches the handler of line 117
CaughtByProcessRepoPackageFile(p, po, ncl) ==
  PairStep(p, processRepoPackageFileCatch, po, ncl)

\* lines 108-109 and 122-125: the pipeline of pair p starts with github.init
processRepoPackageFile(p) ==
  /\ stage[p] = "notstarted"
  /\ PrevPairFulfilled(p)
  /\ PairStep(p, "init", "pending", client)
  /\ UNCHANGED <<upgrades, pc, calls, outcome, branches, files, prs, owner>>

\* github.init settles, lines 109-110; getPackageFileContents, lines 127-130,
\* issues the read of the manifest.  From here the client acts on the
\* repository of pair p.
initSettles(p) ==
  /\ stage[p] = "init"
  /\ \/ /\ PairStep(p, "getPackageFileContents", "pending", p)
        /\ branches' = {}
        /\ files' = FreshFiles
        /\ prs' = <<>>
     \/ /\ \E ncl \in {client, p} :
             CaughtByProcessRepoPackageFile(p, "init-failed", ncl)
        /\ UNCHANGED <<branches, files, prs>>
  /\ UNCHANGED <<upgrades, pc, calls, outcome, owner>>

\* github.getPackageFileContents settles, lines 110-111; determineUpgrades,
\* lines 132-135, asks npm for the upgrades
getPackageFileContentsSettles(p) ==
  /\ stage[p] = "getPackageFileContents"
  /\ \/ PairStep(p, "determineUpgrades", "pending", client)
     \/ CaughtByProcessRepoPackageFile(p, "read-failed", client)
  /\ UNCHANGED <<upgrades, pc, calls, outcome, branches, files, prs, owner>>

\* npm.getAllDependencyUpgrades settles, lines 111-112;
\* processUpgradesSequentially, lines 137-149, builds the chain of the list
determineUpgradesSettles(p) ==
  /\ stage[p] = "determineUpgrades"
  /\ \/ \E list \in UpgradeLists :
          /\ PairStep(p, "processUpgradesSequentially", "pending", client)
          /\ upgrades' = list
          /\ pc' = [k \in 1..Len(list) |-> "notstarted"]
          /\ calls' = [k \in 1..Len(list) |-> <<>>]
          /\ outcome' = [k \in 1..Len(list) |-> "pending"]
          /\ owner' = p
     \/ /\ CaughtByProcessRepoPackageFile(p, "determine-failed", client)
        /\ UNCHANGED <<upgrades, pc, calls, outcome, owner>>
  /\ UNCHANGED <<branches, files, prs>>

\* the promise of processUpgradesSequentially settles, lines 112-119: 'Repo
\* ... done' when it is fulfilled, the handler of line 117 when an error
\* left the upgrade chain
processUpgradesSequentiallySettles(p) ==
  /\ stage[p] = "processUpgradesSequentially"
  /\ owner = p
  /\ ChainResult # "pending"
  /\ IF ChainResult = "resolved"
       THEN PairStep(p, "resolved", "done", client)
       ELSE CaughtByProcessRepoPackageFile(p, "upgrade-escaped", client)
  /\ UNCHANGED <<upgrades, pc, calls, outcome, branches, files, prs, owner>>

\* lines 25-34: the handlers at the end of the chain
chainDone ==
  /\ allDone = "pending"
  /\ OuterResult # "pending"
  /\ allDone' = IF OuterResult = "resolved" THEN "done" ELSE "unexpected"
  /\ UNCHANGED <<upgrades, pc, calls, outcome, branches, files, prs, tp,
                 stage, pairOutcome, client, owner>>

NextRun ==
  \/ \E p \in Pairs : processRepoPackageFile(p)
  \/ \E p \in Pairs : initSettles(p)
  \/ \E p \in Pairs : getPackageFileContentsSettles(p)
  \/ \E p \in Pairs : determineUpgradesSettles(p)
  \/ \E p \in Pairs : processUpgradesSequentiallySettles(p)
  \/ chainDone
  \/ \E k \in Links : updateDependency(k)
  \/ \E k \in Links : chainRejected(k)
  \/ \E k \in Links : checkForClosedPrSettles(k)
  \/ \E k \in Links : createBranchSettles(k)
  \/ \E k \in Links : getPackageFileSettles(k)
  \/ \E k \in Links : writePackageFileSettles(k)
  \/ \E k \in Links : getPrSettles(k)
  \/ \E k \in Links : createPrSettles(k)
  \/ \E k \in Links : updatePrSettles(k)

SpecRun == InitRun /\ [][NextRun]_vars

\* Every remote call settles and every callback whose promise has settled
\* runs: the run takes a step whenever one is possible.
FairRun == SpecRun /\ WF_vars(NextRun)

----------------------------------------------------------------------------
\* Reading the call log

Ops(k, op) == {i \in 1..Len(calls[k]) : calls[k][i].op = op}
Ok(e) == e.settled /\ e.err = "none"
Failed(e) == e.settled /\ e.err # "none"
Mutations == {"writePackageFile", "createPr", "updatePr"}

Rank(op) ==
  CASE op = "checkForClosedPr" -> 1
    [] op = "createBranch" -> 2
    [] op = "getPackageFile" -> 3
    [] op = "writePackageFile" -> 4
    [] op = "getPr" -> 5
    [] OTHER -> 6

----------------------------------------------------------------------------
\* C1: no error of the client propagates out of one updateDependency call,
\* and every upgrade of the list gets its reconcile started: no link of the
\* chain is rejected, neither by its own reconcile nor by the link before it.
C1_NoErrorEscapes ==
  \A k \in Links : pc[k] \notin {"rejected", "passed"}

\* C2: reconciles start in list order, one at a time: when upgrade k has
\* issued its first call, upgrade k-1 has settled with a known outcome and
\* none of its calls is in flight.
C2_Sequential ==
  /\ Cardinality({k \in Links : Running(k)}) <= 1
  /\ \A k \in Links :
       (Started(k) /\ k > 1) =>
         /\ pc[k - 1] = "resolved"
         /\ outcome[k - 1] # "pending"
         /\ \A i \in 1..Len(calls[k - 1]) : calls[k - 1][i].settled

\* the second upgrade is at its createBranch after the first one failed
C2_Witness ==
  /\ N >= 2
  /\ pc[2] = "createBranch"
  /\ outcome[1] = "failed"

\* C3: the calls of one reconcile come in the order duplicate-PR query,
\* createBranch, getPackageFile, (writePackageFile), getPr, (createPr or
\* updatePr); a call is issued only when the one before it has settled, and
\* only when that one succeeded or was the swallowed "already exists".
C3_FixedOrder ==
  \A k \in Links :
    /\ Len(calls[k]) >= 1 => calls[k][1].op = "checkForClosedPr"
    /\ \A i \in 1..(Len(calls[k]) - 1) :
         LET e == calls[k][i]
             f == calls[k][i + 1]
         IN  /\ e.settled
             /\ \/ e.err = "none"
                \/ e.op = "createBranch" /\ e.err = "exists"
             /\ \/ Rank(f.op) = Rank(e.op) + 1
                \/ e.op = "getPackageFile" /\ f.op = "getPr"

\* a reconcile that issued all six calls and settled
C3_Witness ==
  \E k \in Links :
    /\ Len(calls[k]) = 6
    /\ pc[k] = "resolved"
    /\ calls[k][4].op = "writePackageFile"

\* C4: when the duplicate-PR query reports that the PR existed, the query is
\* the only call of the reconcile, which ends as a skip.
C4_DuplicateStops ==
  \A k \in Links :
    (/\ Len(calls[k]) >= 1
     /\ Ok(calls[k][1])
     /\ calls[k][1].val[1])
      => /\ Len(calls[k]) = 1
         /\ pc[k] = "resolved"
         /\ outcome[k] = "skipped-duplicate"

\* a closed PR of the same branch and title made the reconcile stop
C4_Witness ==
  \E k \in Links :
    /\ outcome[k] = "skipped-duplicate"
    /\ \E i \in 1..Len(prs) :
         /\ prs[i].state = "closed"
         /\ prs[i].branch = branchName(upgrades[k])
         /\ prs[i].title = prTitle(upgrades[k])

\* C5: a createBranch failure with "already exists" is followed by the file
\* read; any other createBranch failure, with or without a response, is the
\* last call of the reconcile, which ends as a contained failure and leaves
\* the next link of the chain free to run.
C5_BranchFailure ==
  \A k \in Links : \A i \in Ops(k, "createBranch") :
    LET e == calls[k][i] IN
    /\ (Failed(e) /\ e.err = "exists") =>
         /\ Len(calls[k]) > i
         /\ calls[k][i + 1].op = "getPackageFile"
    /\ (Failed(e) /\ e.err # "exists") =>
         /\ Len(calls[k]) = i
         /\ pc[k] = "resolved"
         /\ outcome[k] = "failed"
         /\ k < N => PrevFulfilled(k + 1)

\* createBranch failed without a response; the next link may run
C5_Witness ==
  /\ N >= 2
  /\ pc[1] = "resolved"
  /\ Len(calls[1]) = 2
  /\ calls[1][2].err = "noresponse"
  /\ pc[2] = "notstarted"

\* The value a successful getPackageFile showed at the upgrade's own entry
ReadValue(k, i) ==
  calls[k][i].val[2][upgrades[k].depType][upgrades[k].depName]

\* C6: when the manifest read from the branch holds newVersion at
\* [depType][depName], the reconcile issues no writePackageFile and its next
\* call is getPr, followed by createPr when getPr finds no PR; when only
\* another section holds newVersion for depName, the write is issued.
C6_UpToDateNoWrite ==
  \A k \in Links : \A i \in Ops(k, "getPackageFile") :
    LET u == upgrades[k]
        e == calls[k][i]
    IN  /\ (Ok(e) /\ ReadValue(k, i) = u.newVersion) =>
              /\ Ops(k, "writePackageFile") = {}
              /\ Len(calls[k]) > i
              /\ calls[k][i + 1].op = "getPr"
              /\ (Ok(calls[k][i + 1]) /\ calls[k][i + 1].val = <<>>) =>
                   /\ Len(calls[k]) > i + 1
                   /\ calls[k][i + 2].op = "createPr"
        /\ (/\ Ok(e)
            /\ ReadValue(k, i) \in Versions \ {u.newVersion}
            /\ \E s \in Sections \ {u.depType} :
                 e.val[2][s][u.depName] = u.newVersion) =>
              /\ Len(calls[k]) > i
              /\ calls[k][i + 1].op = "writePackageFile"

\* the branch was up to date, no PR was found and createPr was issued
C6_Witness ==
  \E k \in Links : \E i \in Ops(k, "getPackageFile") :
    /\ Ok(calls[k][i])
    /\ ReadValue(k, i) = upgrades[k].newVersion
    /\ Len(calls[k]) = i + 2
    /\ calls[k][i + 2].op = "createPr"
    /\ Ops(k, "writePackageFile") = {}

\* C7, in every state: when the manifest read from the branch holds another
\* version at [depType][depName], the reconcile issues exactly one
\* writePackageFile, right after the read, carrying the SHA that read
\* returned and the patched content; a rejected write is the reconcile's
\* last call.
C7_WriteOnce(k) ==
  \A i \in Ops(k, "getPackageFile") :
    LET u == upgrades[k]
        e == calls[k][i]
    IN  (Ok(e) /\ ReadValue(k, i) \in Versions \ {u.newVersion}) =>
          /\ Ops(k, "writePackageFile") = {i + 1}
          /\ calls[k][i + 1].args =
               <<branchName(u), e.val[1],
                 [e.val[2] EXCEPT ![u.depType][u.depName] = u.newVersion],
                 commitMessage(u)>>
          /\ Failed(calls[k][i + 1]) =>
               /\ Len(calls[k]) = i + 1
               /\ pc[k] = "resolved"
               /\ outcome[k] = "failed"

\* C7, in every step: a write that settles while the file on the branch no
\* longer has the SHA it carries is rejected and leaves the file as it is.
C7_StaleRejected(k) ==
  (/\ pc[k] = "writePackageFile"
   /\ pc'[k] # "writePackageFile"
   /\ Sha(files[Last(k).args[1]]) # Last(k).args[2])
    => /\ files' = files
       /\ Failed(calls'[k][Len(calls[k])])
       /\ Len(calls'[k]) = Len(calls[k])

\* C7: exactly one write, on the SHA of this reconcile's own read; a write
\* on a file changed since that read is rejected, overwrites nothing, is not
\* retried and is followed by no PR call.
C7_OptimisticWrite ==
  [][\A k \in Links : C7_WriteOnce(k)' /\ C7_StaleRejected(k)]_vars

\* a write was rejected because a third party had changed the file
C7_Witness ==
  \E k \in Links : \E i \in Ops(k, "writePackageFile") :
    /\ calls[k][i].err = "conflict"
    /\ Sha(files[calls[k][i].args[1]]) # calls[k][i].args[2]
    /\ files[calls[k][i].args[1]] # calls[k][i].args[3]
    /\ pc[k] = "resolved"

C9_CreateOrUpdate ==
  \A k \in Links : \A i \in Ops(k, "getPr") :
    LET u == upgrades[k]
        e == calls[k][i]
    IN  /\ (Ok(e) /\ e.val = <<>>) =>
              /\ Ops(k, "createPr") = {i + 1}
              /\ Ops(k, "updatePr") = {}
              /\ calls[k][i + 1].args = <<branchName(u), prTitle(u), prBody(u)>>
        /\ (/\ Ok(e)
            /\ e.val # <<>>
            /\ e.val[1].title # prTitle(u)
            /\ e.val[1].body # prBody(u)) =>
              /\ Ops(k, "updatePr") = {i + 1}
              /\ Ops(k, "createPr") = {}
              /\ calls[k][i + 1].args =
                   <<e.val[1].number, prTitle(u), prBody(u)>>

\* a PR of another upgrade on the same branch was updated
C9_Witness ==
  \E k \in Links :
    /\ outcome[k] = "updated"
    /\ \E i \in Ops(k, "updatePr") :
         /\ Ok(calls[k][i])
         /\ prs[calls[k][i].args[1]].title = prTitle(upgrades[k])
         /\ prs[calls[k][i].args[1]].body = prBody(upgrades[k])

\* Reconcile k is the latest one started.
LatestStarted(k) == Started(k) /\ \A j \in Links : j > k => ~Started(j)

\* Reconcile k has created no branch and issued no write, createPr or
\* updatePr.
NoRemoteMutation(k) ==
  \A i \in 1..Len(calls[k]) :
    /\ calls[k][i].op \notin Mutations
    /\ calls[k][i].op = "createBranch" => ~Ok(calls[k][i])

\* Reconcile k is the second of two runs in succession for the same upgrade,
\* and no third party has mutated the remote since the first one settled.
SecondRun(k) ==
  /\ k > 1
  /\ LatestStarted(k)
  /\ upgrades[k] = upgrades[k - 1]
  /\ ~tp.between /\ ~tp.run /\ ~tp.after

\* The run before reconcile k ended without a contained failure, and no
\* third party mutated the remote while it ran.
CleanFirstRun(k) ==
  /\ ~tp.prev
  /\ outcome[k - 1] \in {"skipped-duplicate", "created", "updated", "pr-current"}

----------------------------------------------------------------------------
\* Reconcile k has just ended with a PR created, updated or found current:
\* it is the latest one started and no third party has mutated the remote
\* since it settled.
Reconciled(k) ==
  /\ LatestStarted(k)
  /\ pc[k] = "resolved"
  /\ outcome[k] \in {"created", "updated", "pr-current"}
  /\ ~tp.after

\* The branch of upgrade u exists and its manifest holds newVersion at
\* [depType][depName].
BranchAgrees(u) ==
  /\ branchName(u) \in branches
  /\ files[branchName(u)][u.depType][u.depName] = u.newVersion

----------------------------------------------------------------------------
\* The remote calls in flight: those of the pairs' pipelines and those of
\* the reconciles
InFlight ==
  Cardinality({p \in Pairs : stage[p] \in PairCalls})
    + Cardinality({k \in Links : Running(k)})

\* C12: pairs are processed in configuration order, one at a time: when pair
\* p has issued its first call (the client initialisation), the whole
\* pipeline of pair p-1 has settled with its end logged and none of its
\* reconciles is running; at most one remote call is in flight.
C12_PairsSequential ==
  /\ InFlight <= 1
  /\ \A p \in Pairs :
       (p > 1 /\ stage[p] # "notstarted") =>
         /\ stage[p - 1] = "resolved"
         /\ pairOutcome[p - 1] # "pending"
         /\ owner = p - 1 => \A k \in Links : Settled(k)

\* the second pair is at its client initialisation after the first pair ran
\* two reconciles
C12_Witness ==
  /\ Len(stage) >= 2
  /\ stage[2] = "init"
  /\ pairOutcome[1] = "done"
  /\ owner = 1
  /\ N = 2
  /\ outcome[1] = "created"
  /\ outcome[2] = "updated"

----------------------------------------------------------------------------
\* C13: within one reconcile the duplicate-PR query, createBranch,
\* getPackageFile, writePackageFile and getPr are each issued at most once,
\* and at most one createPr or updatePr is issued, whatever the client
\* reported: no step issues a call whose place in the order of calls an
\* earlier call of the same reconcile has taken.
C13_NoRetry ==
  [][\A k \in Links :
       Len(calls'[k]) > Len(calls[k]) =>
         \A j \in 1..Len(calls[k]) :
           Rank(calls[k][j].op) # Rank(calls'[k][Len(calls'[k])].op)]_vars

\* a reconcile ended on a createPr that failed, after a branch that already
\* existed
C13_Witness ==
  \E k \in Links :
    /\ pc[k] = "resolved"
    /\ outcome[k] = "failed-pr"
    /\ Len(calls[k]) >= 3
    /\ Last(k).op = "createPr"
    /\ Failed(Last(k))
    /\ calls[k][2].err = "exists"

----------------------------------------------------------------------------
\* Upgrades j and k of the list are two upgrades that render one branch name.
SameBranch(j, k) ==
  /\ j < k
  /\ upgrades[j] # upgrades[k]
  /\ branchName(upgrades[j]) = branchName(upgrades[k])

\* No write of reconcile k was rejected for a stale SHA.
NoStaleWrite(k) ==
  \A i \in Ops(k, "writePackageFile") : calls[k][i].err # "conflict"

\* The reconcile got past its commit step: it ended in the PR step.
Committed(k) ==
  /\ pc[k] = "resolved"
  /\ outcome[k] \in {"created", "updated", "pr-current", "failed-pr"}

----------------------------------------------------------------------------
\* What processRepoPackageFile's handler of line 117 logged for a pair
PairFailures ==
  {"init-failed", "read-failed", "determine-failed", "upgrade-escaped"}

\* C15: a failure of a pair's client initialisation, manifest read or
\* upgrade determination, or an error that left its upgrade chain, is caught
\* at processRepoPackageFile: the pair's promise is fulfilled, no link of
\* the outer chain is rejected, the next pair is free to run, and the
\* completion handler is reached only when every pair has been processed.
C15_PairFailureContained ==
  /\ allDone # "unexpected"
  /\ allDone = "done" => \A p \in Pairs : pairOutcome[p] # "pending"
  /\ \A p \in Pairs :
       /\ stage[p] # "rejected"
       /\ pairOutcome[p] \in PairFailures =>
            /\ stage[p] = "resolved"
            /\ p < Len(stage) => PrevPairFulfilled(p + 1)

\* an error left the upgrade chain of the first pair; the second pair was
\* processed to its end and the chain completed
C15_Witness ==
  /\ Len(stage) >= 2
  /\ pairOutcome[1] = "upgrade-escaped"
  /\ pairOutcome[2] = "done"
  /\ N >= 1
  /\ allDone = "done"

----------------------------------------------------------------------------
----------------------------------------------------------------------------
\* C17: a step of reconcile k changes nothing but its own branch: it may
\* create branchName and write the manifest on it, open a PR for it and
\* change a PR of it; the manifest on every other branch, the base branch
\* included, and the PRs of other branches stay as they are, whatever the
\* outcome of the reconcile.
C17_OwnBranchOnly ==
  [][\A k \in Links :
       pc'[k] # pc[k] =>
         LET b == branchName(upgrades[k]) IN
         /\ \A c \in (DOMAIN files) \ {b} : files'[c] = files[c]
         /\ branches \subseteq branches'
         /\ branches' \subseteq branches \cup {b}
         /\ Len(prs') >= Len(prs)
         /\ \A i \in 1..Len(prs) : prs'[i] # prs[i] => prs[i].branch = b
         /\ \A i \in (Len(prs) + 1)..Len(prs') : prs'[i].branch = b]_vars

\* two upgrades on two branches each created their branch, commit and PR,
\* and the first one's are as it left them
C17_Witness ==
  /\ N = 2
  /\ branchName(upgrades[1]) # branchName(upgrades[2])
  /\ outcome[1] = "created"
  /\ outcome[2] = "created"
  /\ BranchAgrees(upgrades[1])
  /\ files[branchName(upgrades[1])] # files[branchName(upgrades[2])]
  /\ files[BaseBranch] = BaseManifest
  /\ Len(prs) = 2
  /\ prs[1].title = prTitle(upgrades[1])

----------------------------------------------------------------------------
\* C18: while a call of a reconcile is in flight, the client is initialised
\* for the pair the upgrade was determined in, and that pair is the one at
\* its upgrade chain: never an earlier or a later pair.
C18_ClientOfOwner ==
  \A k \in Links :
    Running(k) =>
      /\ owner \in Pairs
      /\ client = owner
      /\ stage[owner] = "processUpgradesSequentially"
      /\ \A p \in Pairs : p > owner => stage[p] = "notstarted"

\* a reconcile of the second pair has a call in flight on the client
\* initialised for the second pair, after the first pair ran its upgrades
C18_Witness ==
  /\ Len(stage) >= 2
  /\ pairOutcome[1] = "done"
  /\ owner = 2
  /\ client = 2
  /\ \E k \in Links : pc[k] = "writePackageFile"

----------------------------------------------------------------------------
\* The run is over: the handlers at the end of the chain have run, every
\* pair's pipeline has settled with its end logged, and no reconcile has a
\* call in flight or is left without an outcome.
Terminated ==
  /\ allDone # "pending"
  /\ \A p \in Pairs : PairSettled(p) /\ pairOutcome[p] # "pending"
  /\ \A k \in Links :
       /\ Settled(k)
       /\ pc[k] # "passed" => outcome[k] # "pending"

\* C19: when every remote call settles, the run terminates for every
\* configuration and every pattern of errors, and stays terminated.
C19_Terminates == <>[]Terminated

\* the run ended after a pair whose initialisation failed and a pair whose
\* upgrade chain was left by an error
C19_Witness ==
  /\ Terminated
  /\ Len(stage) >= 2
  /\ pairOutcome[1] = "init-failed"
  /\ pairOutcome[2] = "upgrade-escaped"
  /\ N = 2

====
